---------------------------- MODULE Spec2Model ----------------------------
(***************************************************************************)
(* Model of the EB_TensorFlow easyblock                                    *)
(* (easybuild/easyblocks/t/tensorflow.py): the configure, build and        *)
(* install callbacks as state machines over the process environment, the   *)
(* resolved dependencies, the patched CROSSTOOL files and the history of   *)
(* external commands.                                                      *)
(*                                                                         *)
(* Strings that are only compared are TLA+ strings; paths are built with   *)
(* \o as os.path.join builds them.  Text that is searched by a regular     *)
(* expression (file lines, command lines) is a sequence of tokens, and a   *)
(* pattern is a sequence of tokens matched against it.                     *)
(***************************************************************************)
EXTENDS Integers, Sequences, FiniteSets, TLC

VARIABLES
    pc,                \* position inside the running callback
    error,             \* message of the raised EasyBuildError, None if none
    software_root,     \* get_software_root: name -> installation prefix
    software_version,  \* get_software_version: name -> version
    which_tbl,         \* which: command name -> resolved path
    cfg,               \* self.cfg: the easyconfig parameters
    tc_opts,           \* self.toolchain: comp_family and options
    environ,           \* os.environ
    setvar_calls,      \* history of env.setvar(key, val) calls
    cmds,              \* history of run_cmd: <<command line, exit code>>
    tmpdirs,           \* directories that exist under the temporary directory
    files,             \* path -> text, the files the callbacks write or patch
    fs,                \* answers of glob.glob / os.path.exists, symbolic links
    loc,               \* local variables of the running callback
    orig               \* history: files, environ, tmpdirs when the callback began

vars == <<pc, error, software_root, software_version, which_tbl, cfg, tc_opts,
          environ, setvar_calls, cmds, tmpdirs, files, fs, loc, orig>>

-----------------------------------------------------------------------------
(* Bounds of the model *)

\* longest cuda_compute_capabilities list drawn
MaxCapabilities == 2
\* most paths a glob.glob call matches
MaxGlobMatches == 2
\* most lines of a CROSSTOOL file whose patching is checked line by line
MaxLines == 2

-----------------------------------------------------------------------------
(* Python values and helpers *)

None == "<None>"

\* bool(x) of a value that is None or a string
Bool(x) == x # None /\ x # ""

\* os.path.join(a, b) for a relative b
PathJoin(a, b) == a \o "/" \o b

\* os.path.dirname of a path given as <<directory, basename>>
Dirname(p) == p[1]

RECURSIVE Join(_, _)
\* sep.join(seq)
Join(sep, seq) ==
    IF seq = <<>> THEN ""
    ELSE IF Len(seq) = 1 THEN seq[1]
    ELSE seq[1] \o sep \o Join(sep, Tail(seq))

RECURSIVE SelectKeys(_, _)
\* the members of the sorted key list `order` that are in `dom`: sorted(dom)
SelectKeys(order, dom) ==
    IF order = <<>> THEN <<>>
    ELSE IF Head(order) \in dom
         THEN <<Head(order)>> \o SelectKeys(Tail(order), dom)
         ELSE SelectKeys(Tail(order), dom)

\* os.getenv(key, default)
getenv(key, default) == IF key \in DOMAIN environ THEN environ[key] ELSE default

\* the environment after env.setvar of each <<key, val>> of `calls`, in order
RECURSIVE SetAll(_, _)
SetAll(env, calls) ==
    IF calls = <<>> THEN env
    ELSE SetAll((calls[1][1] :> calls[1][2]) @@ env, Tail(calls))

\* which(cmd)
which(cmd) == IF cmd \in DOMAIN which_tbl THEN which_tbl[cmd] ELSE None

get_software_root(name) == software_root[name]
get_software_version(name) == software_version[name]

\* tempfile.mkdtemp(suffix): the names it may return, none of them existing
TmpNames == {"/tmp/tmpa", "/tmp/tmpb"}
mkdtemp(suffix) == {n \o suffix : n \in TmpNames} \ tmpdirs

NoLocals == <<>>

-----------------------------------------------------------------------------
(* Fixed attributes of the easyblock instance *)

installdir == "/eb/software/TensorFlow"
pylibdir == "lib/python2.7/site-packages"
python_cmd == "python"
builddir == "/eb/build/TensorFlow"
start_dir == "/eb/build/TensorFlow/tensorflow-1.5.0"
version == "1.5.0"

INTELCOMP == "Intel"
GCCCOMP == "GCC"

OptionalDeps == {"CUDA", "cuDNN", "jemalloc", "OpenCL"}
CompilerDeps == {"GCCcore", "GCC"}
AllDeps == OptionalDeps \cup CompilerDeps \cup {"binutils"}

RootOf(name) == "/eb/software/" \o name
VersionOf ==
    [n \in AllDeps |->
        CASE n = "CUDA" -> "9.1.85"
          [] n = "cuDNN" -> "7.0.5"
          [] n = "jemalloc" -> "5.0.1"
          [] n = "OpenCL" -> "2.0"
          [] n = "GCCcore" -> "6.4.0"
          [] n = "GCC" -> "7.3.0"
          [] OTHER -> "2.28"]

-----------------------------------------------------------------------------
(* configure_step *)

\* a slip: the tuple written as ('1', '0')
need_flag_swapped(x) == IF Bool(x) THEN "0" ELSE "1"
\* ('0', '1')[bool(x)]
need_flag(x) == IF Bool(x) THEN "1" ELSE "0"

\* the dictionary literal of config_env_vars, for the resolved roots `roots`
base_env_vars(roots) ==
    [ CC_OPT_FLAGS |-> getenv("CXXFLAGS", None),
      MPI_HOME |-> "",
      PYTHON_BIN_PATH |-> python_cmd,
      PYTHON_LIB_PATH |-> PathJoin(installdir, pylibdir),
      TF_CUDA_CLANG |-> "0",
      TF_ENABLE_XLA |-> "0",
      TF_NEED_CUDA |-> need_flag(roots["CUDA"]),
      TF_NEED_GCP |-> "0",
      TF_NEED_GDR |-> "0",
      TF_NEED_HDFS |-> "0",
      TF_NEED_JEMALLOC |-> need_flag(roots["jemalloc"]),
      TF_NEED_MPI |-> need_flag(IF tc_opts.usempi THEN "True" ELSE ""),
      TF_NEED_OPENCL |-> need_flag(roots["OpenCL"]),
      TF_NEED_S3 |-> "0",
      TF_NEED_VERBS |-> "0" ]

\* a slip: the accelerator variables are added whenever cuDNN is resolved too
cuda_env_vars_on_cudnn(roots) ==
    IF Bool(roots["CUDA"]) \/ Bool(roots["cuDNN"])
    THEN [ CUDA_TOOLKIT_PATH |-> roots["CUDA"],
           GCC_HOST_COMPILER_PATH |-> which(getenv("CC", None)),
           TF_CUDA_COMPUTE_CAPABILITIES |-> Join(",", cfg.cuda_compute_capabilities),
           TF_CUDA_VERSION |-> get_software_version("CUDA") ]
    ELSE <<>>
\* if cuda_root: config_env_vars.update({...})
cuda_env_vars(roots) ==
    IF Bool(roots["CUDA"])
    THEN [ CUDA_TOOLKIT_PATH |-> roots["CUDA"],
           GCC_HOST_COMPILER_PATH |-> which(getenv("CC", None)),
           TF_CUDA_COMPUTE_CAPABILITIES |-> Join(",", cfg.cuda_compute_capabilities),
           TF_CUDA_VERSION |-> get_software_version("CUDA") ]
    ELSE <<>>

\* if cudnn_root: config_env_vars.update({...})
cudnn_env_vars(roots) ==
    IF Bool(roots["cuDNN"])
    THEN [ CUDNN_INSTALL_PATH |-> roots["cuDNN"],
           TF_CUDNN_VERSION |-> get_software_version("cuDNN") ]
    ELSE <<>>

\* config_env_vars as it stands before the setvar loop
config_env_vars(roots) ==
    cudnn_env_vars(roots) @@ cuda_env_vars(roots) @@ base_env_vars(roots)

\* every key config_env_vars can hold, in sorted() order
SortedKeys ==
    << "CC_OPT_FLAGS", "CUDA_TOOLKIT_PATH", "CUDNN_INSTALL_PATH",
       "GCC_HOST_COMPILER_PATH", "MPI_HOME", "PYTHON_BIN_PATH", "PYTHON_LIB_PATH",
       "TF_CUDA_CLANG", "TF_CUDA_COMPUTE_CAPABILITIES", "TF_CUDA_VERSION",
       "TF_CUDNN_VERSION", "TF_ENABLE_XLA", "TF_NEED_CUDA", "TF_NEED_GCP",
       "TF_NEED_GDR", "TF_NEED_HDFS", "TF_NEED_JEMALLOC", "TF_NEED_MPI",
       "TF_NEED_OPENCL", "TF_NEED_S3", "TF_NEED_VERBS" >>

\* for (key, val) in sorted(config_env_vars.items()): the setvar calls made
sorted_items(m) ==
    LET ks == SelectKeys(SortedKeys, DOMAIN m)
    IN  [i \in 1..Len(ks) |-> <<ks[i], m[ks[i]]>>]

INTEL_COMPILER_WRAPPER(compiler_path, intel_license_file, cpath) ==
    << "#!/bin/bash\n",
       "export INTEL_LICENSE_FILE='" \o intel_license_file \o "'\n",
       "export CPATH='" \o cpath \o "'\n",
       compiler_path \o " \"$@\"\n" >>

\* the text of configure.py, and the regex substitution configure_step makes in
\* it: (run_shell\(\['bazel') -> \1, '--output_base=<tmpdir>'
ConfigurePy == << <<"run_shell(['bazel'", ", 'info'])", "\n">> >>
configure_py_patched(tmpdir) ==
    << <<"run_shell(['bazel'", ", '--output_base=" \o tmpdir \o "'", ", 'info'])", "\n">> >>

\* lines 66-83: the temporary directory, the icc wrapper, prepare_python
configure_step_wrapper ==
    /\ pc = "configure"
    /\ \E tmpdir \in mkdtemp("-bazel-configure") :
         LET icc_wrapper == PathJoin(PathJoin(tmpdir, "bin"), "icc")
             icc_wrapper_txt ==
                 INTEL_COMPILER_WRAPPER(which("icc"),
                     getenv("INTEL_LICENSE_FILE", getenv("LM_LICENSE_FILE", None)),
                     getenv("CPATH", None))
             new_path == Join(":", <<Dirname(<<PathJoin(tmpdir, "bin"), "icc">>),
                                     getenv("PATH", None)>>)
         IN
           /\ tmpdirs' = tmpdirs \cup {tmpdir}
           /\ loc' = [tmpdir |-> tmpdir]
           /\ IF tc_opts.comp_family = INTELCOMP
              THEN /\ files' = (<<PathJoin(tmpdir, "bin"), "icc">> :> icc_wrapper_txt) @@ files
                   /\ setvar_calls' = Append(setvar_calls, <<"PATH", new_path>>)
                   /\ environ' = SetAll(environ, << <<"PATH", new_path>> >>)
                   \* the wrapper is now the first icc on $PATH
                   /\ which_tbl' = ("icc" :> icc_wrapper) @@ which_tbl
              ELSE UNCHANGED <<files, setvar_calls, environ, which_tbl>>
    /\ pc' = "configure_env"
    /\ UNCHANGED <<error, software_root, software_version, cfg, tc_opts, cmds, fs, orig>>

\* lines 85-127: the environment variables, and the patch of configure.py
configure_step_env ==
    /\ pc = "configure_env"
    /\ LET roots == [d \in OptionalDeps |-> get_software_root(d)]
           calls == sorted_items(config_env_vars(roots))
       IN
         /\ loc' = [tmpdir |-> loc.tmpdir, config_env_vars |-> config_env_vars(roots)]
         /\ setvar_calls' = setvar_calls \o calls
         /\ environ' = SetAll(environ, calls)
    /\ files' = (<<start_dir, "configure.py">> :> configure_py_patched(loc.tmpdir)) @@ files
    /\ pc' = "run_configure"
    /\ UNCHANGED <<error, software_root, software_version, which_tbl, cfg, tc_opts,
                   cmds, tmpdirs, fs, orig>>

\* a slip: log_ok=False, with which run_cmd returns after a non-zero exit code
log_ok_false == FALSE
\* the log_ok argument of the run_cmd calls
log_ok == TRUE

\* run_cmd(cmd, log_all=True, simple=True, log_ok=log_ok): the command runs to its
\* exit code; with log_ok a non-zero exit code raises EasyBuildError
run_cmd(cmd, ec, next_pc) ==
    /\ cmds' = Append(cmds, <<cmd, ec>>)
    /\ IF ec = 0 \/ ~log_ok
       THEN pc' = next_pc /\ error' = error
       ELSE pc' = "failed" /\ error' = "cmd failed"

ExitCodes == {0, 1}

\* line 129: run_cmd('./configure', log_all=True, simple=True)
configure_step_run ==
    /\ pc = "run_configure"
    /\ \E ec \in ExitCodes : run_cmd(<<"./configure">>, ec, "configured")
    /\ UNCHANGED <<software_root, software_version, which_tbl, cfg, tc_opts, environ,
                   setvar_calls, tmpdirs, files, fs, loc, orig>>

-----------------------------------------------------------------------------
(* Regular-expression substitution over token sequences *)

\* tokens the patterns of build_step look for
CXX_INC == "cxx_builtin_include_directory:"
TOOLCHAIN_OPEN == "toolchain {"
USR_BIN == "/usr/bin/"
NL == "\n"

Tools == <<"ar", "cpp", "dwp", "gcc", "gcov", "ld", "nm", "objcopy", "objdump", "strip">>
ToolSet == {Tools[i] : i \in 1..Len(Tools)}

\* the path of a tool under /usr/bin, and the tokens a scan finds in a path
SystemPath(tool) == "/usr/bin/" \o tool
Lex(path) ==
    IF \E t \in ToolSet : path = SystemPath(t)
    THEN <<USR_BIN, CHOOSE t \in ToolSet : path = SystemPath(t)>>
    ELSE <<path>>

IsPrefix(pat, s) == Len(pat) <= Len(s) /\ SubSeq(s, 1, Len(pat)) = pat

RECURSIVE SkipToEol(_)
\* what .* leaves of s: the text from the next line break on
SkipToEol(s) == IF s = <<>> \/ Head(s) = NL THEN s ELSE SkipToEol(Tail(s))

RECURSIVE SubLiteral(_, _, _)
\* re.sub of a literal pattern: every non-overlapping match, leftmost first
SubLiteral(pat, repl, s) ==
    IF s = <<>> THEN <<>>
    ELSE IF IsPrefix(pat, s)
         THEN repl \o SubLiteral(pat, repl, SubSeq(s, Len(pat) + 1, Len(s)))
         ELSE <<Head(s)>> \o SubLiteral(pat, repl, Tail(s))

RECURSIVE SubToEol(_, _, _)
\* re.sub of <literal>.* : each match runs to the end of its line
SubToEol(pat, repl, s) ==
    IF s = <<>> THEN <<>>
    ELSE IF IsPrefix(pat, s)
         THEN repl \o SubToEol(pat, repl, SkipToEol(SubSeq(s, Len(pat) + 1, Len(s))))
         ELSE <<Head(s)>> \o SubToEol(pat, repl, Tail(s))

\* re.sub of ^<literal> : a match at the start of the string only
SubAtStart(pat, repl, s) ==
    IF IsPrefix(pat, s) THEN repl \o SubSeq(s, Len(pat) + 1, Len(s)) ELSE s

\* regex.sub(subtxt, line) for one (regex, subtxt) rule
re_sub(rule, s) ==
    CASE rule.kind = "literal" -> SubLiteral(rule.pat, rule.repl, s)
      [] rule.kind = "to_eol" -> SubToEol(rule.pat, rule.repl, s)
      [] rule.kind = "at_start" -> SubAtStart(rule.pat, rule.repl, s)

RECURSIVE sub_all(_, _)
\* for regex, subtxt in regex_subs: line = regex.sub(subtxt, line)
sub_all(rules, line) ==
    IF rules = <<>> THEN line ELSE sub_all(Tail(rules), re_sub(Head(rules), line))

\* apply_regex_substitutions(path, regex_subs): the new text of a file whose
\* lines are `text`
apply_regex_substitutions(text, rules) ==
    [i \in 1..Len(text) |-> sub_all(rules, text[i])]

-----------------------------------------------------------------------------
(* build_step *)

\* a or b
Or(a, b) == IF Bool(a) THEN a ELSE b

\* resolve_path(p): the canonical path, symbolic links followed
resolve_path(p) == IF p \in DOMAIN fs.links THEN fs.links[p] ELSE p

Triplets == <<"x86_64-pc-linux-gnu", "x86_64-unknown-linux-gnu", "x86_64-redhat-linux">>

\* the k first candidates of glob(<gcc_root>/lib/gcc/*/<gcc_ver>/include), each
\* as <<directory, basename>>
GccIncludeGlob(gcc_root, gcc_ver, k) ==
    [i \in 1..k |->
        <<PathJoin(PathJoin(PathJoin(PathJoin(gcc_root, "lib"), "gcc"), Triplets[i]), gcc_ver),
          "include">>]

\* lines 135-142: the installation directory and binutils
build_step_binutils ==
    /\ pc = "build"
    /\ LET binutils_root == get_software_root("binutils")
       IN  IF Bool(binutils_root)
           THEN /\ loc' = [binutils_bin |-> PathJoin(binutils_root, "bin")]
                /\ pc' = "build_gcc"
                /\ error' = error
           ELSE /\ pc' = "failed"
                /\ error' = "Failed to determine installation prefix for binutils"
                /\ loc' = loc
    /\ fs' = [fs EXCEPT !.exists = @ \cup {PathJoin(installdir, pylibdir)}]
    /\ UNCHANGED <<software_root, software_version, which_tbl, cfg, tc_opts, environ,
                   setvar_calls, cmds, tmpdirs, files, orig>>

\* the version build_step looks the include directories up with
gcc_ver_used == Or(get_software_version("GCCcore"), get_software_version("GCC"))

\* a slip: if res, which lets the first of several matches through
glob_any(res) == res # <<>>
\* if res and len(res) == 1
glob_unique(res) == res # <<>> /\ Len(res) = 1

\* lines 144-164: the GCC root and version, and the directories derived from them
build_step_gcc ==
    /\ pc = "build_gcc"
    /\ LET gcc_root == Or(get_software_root("GCCcore"), get_software_root("GCC"))
           gcc_ver == gcc_ver_used
       IN  IF ~Bool(gcc_root)
           THEN /\ pc' = "failed"
                /\ error' = "Failed to determine installation prefix for GCC"
                /\ UNCHANGED <<fs, loc>>
           ELSE IF gcc_ver = None
           THEN \* os.path.join(..., None, ...) raises TypeError
                /\ pc' = "crashed"
                /\ error' = "TypeError"
                /\ loc' = [gcc_root |-> gcc_root, gcc_ver |-> gcc_ver] @@ loc
                /\ fs' = fs
           ELSE \E k \in 0..MaxGlobMatches, fixed_exists \in BOOLEAN, cplusplus_exists \in BOOLEAN :
                LET res == GccIncludeGlob(gcc_root, gcc_ver, k)
                    gcc_lib_inc == PathJoin(res[1][1], res[1][2])
                    gcc_lib_inc_fixed == PathJoin(Dirname(res[1]), "include-fixed")
                    gcc_cplusplus_inc ==
                        PathJoin(PathJoin(PathJoin(gcc_root, "include"), "c++"), gcc_ver)
                    found == [gcc_root |-> gcc_root, gcc_ver |-> gcc_ver,
                              gcc_lib64 |-> PathJoin(gcc_root, "lib64")]
                IN  /\ fs' = [fs EXCEPT !.glob = res,
                                 !.exists = @ \cup
                                   (IF glob_unique(res) /\ fixed_exists
                                    THEN {gcc_lib_inc_fixed} ELSE {}) \cup
                                   (IF cplusplus_exists THEN {gcc_cplusplus_inc} ELSE {})]
                    /\ IF ~glob_unique(res)
                       THEN /\ pc' = "failed"
                            /\ error' = "Failed to pinpoint location of GCC include files"
                            /\ loc' = found @@ loc
                       ELSE IF ~fixed_exists
                       THEN /\ pc' = "failed"
                            /\ error' = "Derived directory include-fixed does not exist"
                            /\ loc' = found @@ loc
                       ELSE IF ~cplusplus_exists
                       THEN /\ pc' = "failed"
                            /\ error' = "Derived directory include/c++ does not exist"
                            /\ loc' = found @@ loc
                       ELSE /\ pc' = "build_subs"
                            /\ error' = error
                            /\ loc' = [gcc_lib_inc |-> gcc_lib_inc,
                                       gcc_lib_inc_fixed |-> gcc_lib_inc_fixed,
                                       gcc_cplusplus_inc |-> gcc_cplusplus_inc]
                                      @@ found @@ loc
    /\ UNCHANGED <<software_root, software_version, which_tbl, cfg, tc_opts, environ,
                   setvar_calls, cmds, tmpdirs, files, orig>>

\* lines 166-172: the include and library directories
inc_paths_of(l, cuda_root) ==
    <<l.gcc_lib_inc, l.gcc_lib_inc_fixed, l.gcc_cplusplus_inc>>
    \o (IF Bool(cuda_root) THEN <<PathJoin(cuda_root, "include")>> ELSE <<>>)
lib_paths_of(l, cuda_root) ==
    <<l.gcc_lib64>>
    \o (IF Bool(cuda_root) THEN <<PathJoin(cuda_root, "lib64")>> ELSE <<>>)

\* the three rules of the regex_subs literal: the -B flag, the strip of the
\* include declarations, the injection of the collected ones
rule_binutils(binutils_bin, lib_paths) ==
    [ kind |-> "literal", pat |-> <<"-B", USR_BIN>>,
      repl |-> <<"-B" \o binutils_bin \o "/ "
                 \o Join(" ", [i \in 1..Len(lib_paths) |-> "-L" \o lib_paths[i] \o "/"])>> ]
rule_strip ==
    [ kind |-> "to_eol", pat |-> <<CXX_INC>>, repl |-> <<>> ]
RECURSIVE IncludeLines(_)
\* '\n'.join('cxx_builtin_include_directory: "%s"' % p for p in paths), after the
\* first '\n'
IncludeLines(paths) ==
    IF paths = <<>> THEN <<>>
    ELSE <<NL, CXX_INC, " \"" \o Head(paths) \o "\"">> \o IncludeLines(Tail(paths))
rule_inject(inc_paths) ==
    [ kind |-> "at_start", pat |-> <<TOOLCHAIN_OPEN>>,
      repl |-> <<TOOLCHAIN_OPEN>>
               \o IncludeLines([i \in 1..Len(inc_paths) |-> resolve_path(inc_paths[i])]) ]

\* a slip: the injection rule listed before the strip rule
base_regex_subs_inject_first(binutils_bin, lib_paths, inc_paths) ==
    << rule_binutils(binutils_bin, lib_paths), rule_inject(inc_paths), rule_strip >>
\* regex_subs = [...]
base_regex_subs(binutils_bin, lib_paths, inc_paths) ==
    << rule_binutils(binutils_bin, lib_paths), rule_strip, rule_inject(inc_paths) >>

\* a slip: a tool list that lacks gcc
tool_regex_subs_no_gcc ==
    LET ts == SelectSeq(Tools, LAMBDA t : t # "gcc")
    IN  [i \in 1..Len(ts) |->
            [kind |-> "literal", pat |-> Lex(SystemPath(ts[i])), repl |-> Lex(which(ts[i]))]]
\* regex_subs.append((os.path.join('/usr', 'bin', tool), path)) for each tool
tool_regex_subs ==
    [i \in 1..Len(Tools) |->
        [kind |-> "literal", pat |-> Lex(SystemPath(Tools[i])), repl |-> Lex(which(Tools[i]))]]

\* regex_subs.extend([('-fPIE', '-fPIC'), ('"-pie"', '"-fPIC"')])
pic_regex_subs ==
    << [kind |-> "literal", pat |-> <<"-fPIE">>, repl |-> <<"-fPIC">>],
       [kind |-> "literal", pat |-> <<"\"-pie\"">>, repl |-> <<"\"-fPIC\"">>] >>

\* lines 166-188: the paths and the substitution rules
build_step_subs ==
    /\ pc = "build_subs"
    /\ LET cuda_root == get_software_root("CUDA")
           inc_paths == inc_paths_of(loc, cuda_root)
           lib_paths == lib_paths_of(loc, cuda_root)
           missing == {i \in 1..Len(Tools) : ~Bool(which(Tools[i]))}
           regex_subs ==
               base_regex_subs(loc.binutils_bin, lib_paths, inc_paths)
               \o tool_regex_subs
               \o (IF tc_opts.pic THEN pic_regex_subs ELSE <<>>)
       IN  IF missing # {}
           THEN /\ pc' = "failed"
                /\ error' = "Failed to determine path to tool"
                /\ loc' = [inc_paths |-> inc_paths, lib_paths |-> lib_paths,
                           cuda_root |-> cuda_root] @@ loc
           ELSE /\ pc' = "build_patch"
                /\ error' = error
                /\ loc' = [inc_paths |-> inc_paths, lib_paths |-> lib_paths,
                           cuda_root |-> cuda_root, regex_subs |-> regex_subs] @@ loc
    /\ UNCHANGED <<software_root, software_version, which_tbl, cfg, tc_opts, environ,
                   setvar_calls, cmds, tmpdirs, files, fs, orig>>

\* filename.startswith('CROSSTOOL'), over the file names of the source tree
CrosstoolSuffixes == {"", ".tpl", "_nvcc.tpl"}
startswith_CROSSTOOL(filename) == \E sfx \in CrosstoolSuffixes : filename = "CROSSTOOL" \o sfx

\* lines 190-195: every CROSSTOOL* file of the source tree is patched
build_step_patch ==
    /\ pc = "build_patch"
    /\ files' = [f \in DOMAIN files |->
                    IF startswith_CROSSTOOL(f[2])
                    THEN apply_regex_substitutions(files[f], loc.regex_subs)
                    ELSE files[f]]
    /\ pc' = "build_bazel"
    /\ UNCHANGED <<error, software_root, software_version, which_tbl, cfg, tc_opts,
                   environ, setvar_calls, cmds, tmpdirs, fs, loc, orig>>

RECURSIVE Flatten(_)
\* ' '.join(cmd), as the words of the command line
Flatten(cmd) == IF cmd = <<>> THEN <<>> ELSE Head(cmd) \o Flatten(Tail(cmd))

BUILD_TARGET == "//tensorflow/tools/pip_package:build_pip_package"

\* a slip: --config=mkl is appended whatever with_mkl_dnn says
bazel_cmd_always_mkl(tmpdir, cuda_root) ==
    << <<"bazel">>, <<"--output_base=" \o tmpdir>>, <<"build">>,
       <<"--compilation_mode=opt">>, <<"--config=opt">>,
       <<"--subcommands">>, <<"--verbose_failures">> >>
    \o (IF tc_opts.pic THEN << <<"--copt=\"-fPIC\"">> >> ELSE <<>>)
    \o << cfg.buildopts >>
    \o (IF Bool(cuda_root) THEN << <<"--config=cuda">> >> ELSE <<>>)
    \o << <<"--config=mkl">> >>
    \o << <<BUILD_TARGET>> >>
\* lines 199-221: the list cmd
bazel_cmd(tmpdir, cuda_root) ==
    << <<"bazel">>, <<"--output_base=" \o tmpdir>>, <<"build">>,
       <<"--compilation_mode=opt">>, <<"--config=opt">>,
       <<"--subcommands">>, <<"--verbose_failures">> >>
    \o (IF tc_opts.pic THEN << <<"--copt=\"-fPIC\"">> >> ELSE <<>>)
    \o << cfg.buildopts >>
    \o (IF Bool(cuda_root) THEN << <<"--config=cuda">> >> ELSE <<>>)
    \o (IF cfg.with_mkl_dnn THEN << <<"--config=mkl">> >> ELSE <<>>)
    \o << <<BUILD_TARGET>> >>

\* lines 197-223: the bazel build command
build_step_bazel ==
    /\ pc = "build_bazel"
    /\ \E tmpdir \in mkdtemp("-bazel-build"), ec \in ExitCodes :
         /\ tmpdirs' = tmpdirs \cup {tmpdir}
         /\ loc' = [tmpdir |-> tmpdir] @@ loc
         /\ run_cmd(Flatten(bazel_cmd(tmpdir, loc.cuda_root)), ec, "build_pip_package")
    /\ UNCHANGED <<software_root, software_version, which_tbl, cfg, tc_opts, environ,
                   setvar_calls, files, fs, orig>>

\* lines 225-226: the packaging-build executable
build_step_pip_package ==
    /\ pc = "build_pip_package"
    /\ \E ec \in ExitCodes :
         run_cmd(<<"bazel-bin/tensorflow/tools/pip_package/build_pip_package", builddir>>,
                 ec, "built")
    /\ UNCHANGED <<software_root, software_version, which_tbl, cfg, tc_opts, environ,
                   setvar_calls, tmpdirs, files, fs, loc, orig>>

-----------------------------------------------------------------------------
(* install_step *)

\* the k first matches of glob(<builddir>/tensorflow-<version>-*.whl)
WheelTags == <<"cp27-cp27mu-linux_x86_64", "cp36-cp36m-linux_x86_64", "py2-none-any">>
WheelGlob(k) ==
    [i \in 1..k |-> PathJoin(builddir, "tensorflow-" \o version \o "-" \o WheelTags[i] \o ".whl")]

\* a slip: if whl_paths, which installs the first of several wheels
whl_nonempty(whl_paths) == Len(whl_paths) >= 1
\* if len(whl_paths) == 1
whl_unique(whl_paths) == Len(whl_paths) = 1

\* lines 234-241: the wheel is looked up and installed
install_step_pip ==
    /\ pc = "install"
    /\ \E k \in 0..MaxGlobMatches :
         LET whl_paths == WheelGlob(k)
         IN  /\ fs' = [fs EXCEPT !.glob = whl_paths]
             /\ loc' = [whl_paths |-> whl_paths]
             /\ IF whl_unique(whl_paths)
                THEN \E ec \in ExitCodes :
                       run_cmd(<<"pip", "install", "--ignore-installed",
                                 "--prefix=" \o installdir, whl_paths[1]>>,
                               ec, "install_runtest")
                ELSE /\ pc' = "failed"
                     /\ error' = "Failed to isolate built .whl"
                     /\ cmds' = cmds
    /\ UNCHANGED <<software_root, software_version, which_tbl, cfg, tc_opts, environ,
                   setvar_calls, tmpdirs, files, orig>>

\* a slip: the installed library location appended instead of prepended
pythonpath_appended(pythonpath) == pythonpath \o ":" \o PathJoin(installdir, pylibdir)
\* '%s:%s' % (os.path.join(self.installdir, self.pylibdir), pythonpath)
pythonpath_extended(pythonpath) == PathJoin(installdir, pylibdir) \o ":" \o pythonpath

\* lines 245-247: if runtest, $PYTHONPATH is extended
install_step_runtest ==
    /\ pc = "install_runtest"
    /\ IF cfg.runtest
       THEN LET call == <<"PYTHONPATH", pythonpath_extended(getenv("PYTHONPATH", ""))>>
            IN  /\ setvar_calls' = Append(setvar_calls, call)
                /\ environ' = SetAll(environ, <<call>>)
                /\ loc' = [mnist_i |-> 1] @@ loc
                /\ pc' = "install_mnist"
       ELSE /\ pc' = "installed"
            /\ UNCHANGED <<setvar_calls, environ, loc>>
    /\ UNCHANGED <<error, software_root, software_version, which_tbl, cfg, tc_opts,
                   cmds, tmpdirs, files, fs, orig>>

\* for mnist_py in [...], with os.path.splitext(mnist_py)[0]
MnistScripts == << <<"mnist_softmax", ".py">>, <<"mnist_with_summaries", ".py">> >>

\* lines 249-253: one pass of the loop over the example scripts
install_step_mnist ==
    /\ pc = "install_mnist"
    /\ LET mnist_py == MnistScripts[loc.mnist_i]
           script ==
               PathJoin(PathJoin(PathJoin(PathJoin(PathJoin(start_dir, "tensorflow"),
                   "examples"), "tutorials"), "mnist"), mnist_py[1] \o mnist_py[2])
       IN  \E tmpdir \in mkdtemp("-tf-" \o mnist_py[1] \o "-test"), ec \in ExitCodes :
             /\ tmpdirs' = tmpdirs \cup {tmpdir}
             /\ loc' = [loc EXCEPT !.mnist_i = @ + 1]
             /\ run_cmd(<<python_cmd, script, "--data_dir", tmpdir>>, ec,
                        IF loc.mnist_i = Len(MnistScripts) THEN "installed" ELSE "install_mnist")
    /\ UNCHANGED <<software_root, software_version, which_tbl, cfg, tc_opts, environ,
                   setvar_calls, files, fs, orig>>

-----------------------------------------------------------------------------
(* States in which configure_step is called *)

RECURSIVE SeqsUpTo(_, _)
\* the sequences over S of length at most n
SeqsUpTo(S, n) ==
    IF n = 0 THEN {<<>>}
    ELSE LET shorter == SeqsUpTo(S, n - 1)
         IN  shorter \cup {Append(s, x) : s \in shorter, x \in S}

Capabilities == {"3.5", "6.0"}

DefaultCfg ==
    [ cuda_compute_capabilities |-> <<>>, with_mkl_dnn |-> TRUE,
      runtest |-> FALSE, buildopts |-> <<>> ]

BaseEnviron ==
    [ CC |-> "gcc", CXXFLAGS |-> "-O2 -march=native", CPATH |-> "/eb/include",
      PATH |-> "/eb/bin:/usr/bin", LM_LICENSE_FILE |-> "lic@server" ]

EBWhich == [t \in ToolSet \cup {"icc"} |-> "/eb/bin/" \o t]

NoFs == [glob |-> <<>>, exists |-> {}, links |-> <<>>]

InitConfigure ==
    /\ pc = "configure"
    /\ error = None
    /\ software_root \in
         {r \in [AllDeps -> {None} \cup {RootOf(n) : n \in AllDeps}] :
            /\ \A n \in OptionalDeps : r[n] \in {None, RootOf(n)}
            /\ \A n \in AllDeps \ OptionalDeps : r[n] = RootOf(n)}
    /\ software_version = [n \in AllDeps |-> IF Bool(software_root[n]) THEN VersionOf[n] ELSE None]
    /\ which_tbl = EBWhich
    /\ \E caps \in SeqsUpTo(Capabilities, MaxCapabilities) :
         cfg = [DefaultCfg EXCEPT !.cuda_compute_capabilities = caps]
    /\ \E mpi \in BOOLEAN, fam \in {GCCCOMP, INTELCOMP} :
         tc_opts = [comp_family |-> fam, usempi |-> mpi, pic |-> FALSE]
    /\ \E stale \in BOOLEAN :
         environ = (IF stale THEN [TF_CUDA_VERSION |-> "8.0"] ELSE <<>>)
                   @@ [BaseEnviron EXCEPT !.CC =
                         IF tc_opts.comp_family = INTELCOMP THEN "icc" ELSE "gcc"]
    /\ setvar_calls = <<>>
    /\ cmds = <<>>
    /\ tmpdirs \in SUBSET {"/tmp/tmpa-bazel-configure"}
    /\ files = (<<start_dir, "configure.py">> :> ConfigurePy)
    /\ fs = NoFs
    /\ loc = NoLocals
    /\ orig = [files |-> files, environ |-> environ, tmpdirs |-> tmpdirs]

-----------------------------------------------------------------------------
(* States in which build_step is called *)

\* the tools whose lookup is varied, and which the drawn file texts refer to
FileTools == {"ar", "gcc", "strip"}

\* the tools resolve under the EasyBuild prefix, but for at most one of `odd`,
\* which is not found or is the system's
WhichChoices(odd) ==
    {EBWhich}
    \cup {[EBWhich EXCEPT ![t] = None] : t \in odd}
    \cup {[EBWhich EXCEPT ![t] = SystemPath(t)] : t \in odd}

BuildOpts == {<<>>, <<"--jobs=4">>, <<"--config=mkl">>, <<"--config=cuda">>}

CrosstoolDir == PathJoin(PathJoin(start_dir, "tools"), "cpp")
NvccDir == PathJoin(PathJoin(PathJoin(start_dir, "third_party"), "gpus"), "crosstool")

\* lines of a CROSSTOOL file
LineToolchain == <<TOOLCHAIN_OPEN, NL>>
LineDefaultToolchain == <<"default_", TOOLCHAIN_OPEN, NL>>
LineInclude == <<"  ", CXX_INC, " \"/usr/include\"", NL>>
LineToolchainInclude == <<TOOLCHAIN_OPEN, " ", CXX_INC, " \"/usr/include\" }", NL>>
LineLinkerB == <<"  linker_flag: \"", "-B", USR_BIN, "\"", NL>>
LinePie == <<"  compiler_flag: \"", "-fPIE", "\" linker_flag: ", "\"-pie\"", NL>>
LineTool(t) == <<"  tool_path { name: \"" \o t \o "\" path: \"", USR_BIN, t, "\" }", NL>>

SourceTree ==
    (<<CrosstoolDir, "CROSSTOOL">> :>
        <<LineDefaultToolchain, LineToolchain, LineTool("gcc"), LineTool("ld"),
          LineInclude, LineLinkerB, LinePie>>)
    @@ (<<NvccDir, "CROSSTOOL_nvcc.tpl">> :>
        <<LineToolchain, LineTool("ar"), LineInclude, LineToolchain, LineInclude>>)
    @@ (<<start_dir, "BUILD">> :> <<LineTool("gcc"), LineInclude>>)

InitBuild ==
    /\ pc = "build"
    /\ error = None
    /\ software_root \in
         {r \in [AllDeps -> {None} \cup {RootOf(n) : n \in AllDeps}] :
            /\ \A n \in {"binutils", "GCCcore", "GCC", "CUDA"} : r[n] \in {None, RootOf(n)}
            /\ \A n \in OptionalDeps \ {"CUDA"} : r[n] = None}
    /\ software_version \in
         {v \in [AllDeps -> {None} \cup {VersionOf[n] : n \in AllDeps}] :
            /\ \A n \in CompilerDeps : v[n] \in {None, VersionOf[n]}
            /\ \A n \in AllDeps \ CompilerDeps :
                 v[n] = IF Bool(software_root[n]) THEN VersionOf[n] ELSE None}
    /\ which_tbl \in WhichChoices(FileTools)
    /\ \E mkl \in BOOLEAN, opts \in BuildOpts :
         cfg = [DefaultCfg EXCEPT !.with_mkl_dnn = mkl, !.buildopts = opts]
    /\ \E pic \in BOOLEAN :
         tc_opts = [comp_family |-> GCCCOMP, usempi |-> FALSE, pic |-> pic]
    /\ environ = BaseEnviron
    /\ setvar_calls = <<>>
    /\ cmds = <<>>
    /\ tmpdirs = {}
    /\ files = SourceTree
    /\ fs = NoFs
    /\ loc = NoLocals
    /\ orig = [files |-> files, environ |-> environ, tmpdirs |-> tmpdirs]

(* States in which install_step is called *)

InitInstall ==
    /\ pc = "install"
    /\ error = None
    /\ software_root = [n \in AllDeps |-> RootOf(n)]
    /\ software_version = VersionOf
    /\ which_tbl = EBWhich
    /\ \E rt \in BOOLEAN : cfg = [DefaultCfg EXCEPT !.runtest = rt]
    /\ tc_opts = [comp_family |-> GCCCOMP, usempi |-> FALSE, pic |-> FALSE]
    /\ \E set \in BOOLEAN :
         environ = (IF set THEN [PYTHONPATH |-> "/eb/software/Python/lib"] ELSE <<>>)
                   @@ BaseEnviron
    /\ setvar_calls = <<>>
    /\ cmds = <<>>
    /\ tmpdirs \in SUBSET {"/tmp/tmpa-tf-mnist_softmax-test",
                           "/tmp/tmpb-tf-mnist_with_summaries-test"}
    /\ files = SourceTree
    /\ fs = NoFs
    /\ loc = NoLocals
    /\ orig = [files |-> files, environ |-> environ, tmpdirs |-> tmpdirs]

(* The callbacks, each from every state the framework may call it in *)

Init == InitConfigure \/ InitBuild \/ InitInstall

Next ==
    \/ configure_step_wrapper
    \/ configure_step_env
    \/ configure_step_run
    \/ build_step_binutils
    \/ build_step_gcc
    \/ build_step_subs
    \/ build_step_patch
    \/ build_step_bazel
    \/ build_step_pip_package
    \/ install_step_pip
    \/ install_step_runtest
    \/ install_step_mnist

Spec == Init /\ [][Next]_vars

-----------------------------------------------------------------------------
(* The patching of one CROSSTOOL file, over every text of at most MaxLines   *)
(* lines: build_step from the point where the GCC directories are known       *)

LineKinds ==
    {LineToolchain, LineDefaultToolchain, LineInclude, LineToolchainInclude,
     LineLinkerB, LinePie} \cup {LineTool(t) : t \in FileTools}

CudaInclude == PathJoin(RootOf("CUDA"), "include")

InitPatch ==
    /\ pc = "build_subs"
    /\ error = None
    /\ software_root \in
         {r \in [AllDeps -> {None} \cup {RootOf(n) : n \in AllDeps}] :
            /\ r["CUDA"] \in {None, RootOf("CUDA")}
            /\ \A n \in OptionalDeps \ {"CUDA"} : r[n] = None
            /\ \A n \in CompilerDeps \cup {"binutils"} : r[n] = RootOf(n)}
    /\ software_version =
         [n \in AllDeps |-> IF Bool(software_root[n]) THEN VersionOf[n] ELSE None]
    /\ which_tbl \in WhichChoices(FileTools)
    /\ cfg = DefaultCfg
    /\ \E pic \in BOOLEAN :
         tc_opts = [comp_family |-> GCCCOMP, usempi |-> FALSE, pic |-> pic]
    /\ environ = BaseEnviron
    /\ setvar_calls = <<>>
    /\ cmds = <<>>
    /\ tmpdirs = {}
    /\ \E text \in SeqsUpTo(LineKinds, MaxLines) :
         files = (<<CrosstoolDir, "CROSSTOOL">> :> text)
    /\ LET res == GccIncludeGlob(RootOf("GCCcore"), VersionOf["GCCcore"], 1)
           gcc_cplusplus_inc ==
               PathJoin(PathJoin(PathJoin(RootOf("GCCcore"), "include"), "c++"),
                        VersionOf["GCCcore"])
       IN  /\ fs = [ glob |-> res,
                     exists |-> {PathJoin(installdir, pylibdir),
                                 PathJoin(Dirname(res[1]), "include-fixed"),
                                 gcc_cplusplus_inc},
                     links |-> (CudaInclude :> "/usr/local/cuda-9.1/include") ]
           /\ loc = [ binutils_bin |-> PathJoin(RootOf("binutils"), "bin"),
                      gcc_root |-> RootOf("GCCcore"),
                      gcc_ver |-> VersionOf["GCCcore"],
                      gcc_lib64 |-> PathJoin(RootOf("GCCcore"), "lib64"),
                      gcc_lib_inc |-> PathJoin(res[1][1], res[1][2]),
                      gcc_lib_inc_fixed |-> PathJoin(Dirname(res[1]), "include-fixed"),
                      gcc_cplusplus_inc |-> gcc_cplusplus_inc ]
    /\ orig = [files |-> files, environ |-> environ, tmpdirs |-> tmpdirs]

NextPatch == build_step_subs \/ build_step_patch

SpecPatch == InitPatch /\ [][NextPatch]_vars

-----------------------------------------------------------------------------
(* Properties *)

Bit(b) == IF b THEN "1" ELSE "0"
Present(dep) == Bool(software_root[dep])

\* configure_step has applied its mapping
Configured == "config_env_vars" \in DOMAIN loc

RootCombos == [OptionalDeps -> BOOLEAN]
RootsOf(c) == [d \in OptionalDeps |-> IF c[d] THEN RootOf(d) ELSE None]
KeySet == {SortedKeys[i] : i \in 1..Len(SortedKeys)}
\* key k is in the mapping of every combination and is "1" exactly when dep is resolved
Tracks(k, dep) ==
    \A c \in RootCombos :
        LET m == config_env_vars(RootsOf(c))
        IN  k \in DOMAIN m /\ m[k] = Bit(c[dep])
\* key k has one value in all combinations that hold it
SameInAll(k) ==
    \A c1 \in RootCombos, c2 \in RootCombos :
        LET m1 == config_env_vars(RootsOf(c1))
            m2 == config_env_vars(RootsOf(c2))
        IN  (k \in DOMAIN m1 /\ k \in DOMAIN m2) => m1[k] = m2[k]
FeatureFlags ==
    {"TF_CUDA_CLANG", "TF_ENABLE_XLA", "TF_NEED_CUDA", "TF_NEED_GCP", "TF_NEED_GDR",
     "TF_NEED_HDFS", "TF_NEED_JEMALLOC", "TF_NEED_MPI", "TF_NEED_OPENCL", "TF_NEED_S3",
     "TF_NEED_VERBS"}

\* C1 as stated: in the mapping configure_step applies, each of the four optional
\* dependencies (CUDA, cuDNN, jemalloc, OpenCL) has a feature flag that is "1" in
\* the combinations where it is resolved and "0" in the others, and every other
\* feature flag has the same value in all 16 combinations.
C1_Original ==
    Configured =>
        /\ \A dep \in OptionalDeps : \E k \in KeySet : Tracks(k, dep)
        /\ \A k \in FeatureFlags :
             (\A dep \in OptionalDeps : ~Tracks(k, dep)) => SameInAll(k)

\* C1 amended: the mapping applied sets TF_NEED_CUDA, TF_NEED_JEMALLOC and
\* TF_NEED_OPENCL to "1" when CUDA, jemalloc, OpenCL (respectively) is resolved and
\* to "0" when it is not; cuDNN has no feature flag: CUDNN_INSTALL_PATH and
\* TF_CUDNN_VERSION are in the mapping exactly when cuDNN is resolved; every other
\* feature flag is "0", but TF_NEED_MPI, which follows the usempi toolchain option;
\* and the environment holds every value of the mapping.
C1_FeatureFlags ==
    Configured =>
        LET m == loc.config_env_vars
        IN  /\ m["TF_NEED_CUDA"] = Bit(Present("CUDA"))
            /\ m["TF_NEED_JEMALLOC"] = Bit(Present("jemalloc"))
            /\ m["TF_NEED_OPENCL"] = Bit(Present("OpenCL"))
            /\ ("CUDNN_INSTALL_PATH" \in DOMAIN m) <=> Present("cuDNN")
            /\ ("TF_CUDNN_VERSION" \in DOMAIN m) <=> Present("cuDNN")
            /\ m["TF_NEED_MPI"] = Bit(tc_opts.usempi)
            /\ \A k \in FeatureFlags \ {"TF_NEED_CUDA", "TF_NEED_JEMALLOC",
                                        "TF_NEED_OPENCL", "TF_NEED_MPI"} : m[k] = "0"
            /\ FeatureFlags \subseteq DOMAIN m
            /\ \A k \in DOMAIN m : k \in DOMAIN environ /\ environ[k] = m[k]

\* C1 witness: configure_step ran to its end with cuDNN and jemalloc resolved and
\* CUDA and OpenCL not resolved
C1_Witness ==
    /\ pc = "configured"
    /\ Present("cuDNN") /\ Present("jemalloc")
    /\ ~Present("CUDA") /\ ~Present("OpenCL")
    /\ environ["TF_NEED_JEMALLOC"] = "1" /\ environ["TF_NEED_CUDA"] = "0"

AcceleratorVars == {"CUDA_TOOLKIT_PATH", "TF_CUDA_COMPUTE_CAPABILITIES", "TF_CUDA_VERSION"}

\* C2: when CUDA has no resolved installation root, no env.setvar call is made for
\* CUDA_TOOLKIT_PATH, TF_CUDA_COMPUTE_CAPABILITIES or TF_CUDA_VERSION, and the
\* mapping holds none of them, whatever the other dependencies and
\* cuda_compute_capabilities are.
C2_NoAcceleratorVars ==
    ~Present("CUDA") =>
        /\ \A i \in 1..Len(setvar_calls) : setvar_calls[i][1] \notin AcceleratorVars
        /\ Configured => DOMAIN loc.config_env_vars \cap AcceleratorVars = {}
        /\ \A k \in AcceleratorVars :
             (k \in DOMAIN environ) =>
                (k \in DOMAIN orig.environ /\ environ[k] = orig.environ[k])

\* C2 witness: configure_step ran to its end without CUDA, with cuDNN resolved and
\* two compute capabilities configured
C2_Witness ==
    /\ pc = "configured"
    /\ ~Present("CUDA") /\ Present("cuDNN")
    /\ Len(cfg.cuda_compute_capabilities) = 2
    /\ Len(setvar_calls) > 0

\* install_step has looked the wheel up
WheelLookedUp == "whl_paths" \in DOMAIN loc
IsPip(c) == c[1][1] = "pip"
IsMnist(c) == c[1][1] = python_cmd /\ Len(c[1]) = 4 /\ c[1][3] = "--data_dir"
PipCmds == {i \in 1..Len(cmds) : IsPip(cmds[i])}

\* C3: pip install is run if and only if the glob matched exactly one file; with
\* zero or several matches install_step raises the fatal error and runs no command
\* at all, no smoke-test script either, even when runtest is set.
C3_InstallNeedsOneWheel ==
    WheelLookedUp =>
        /\ (PipCmds # {}) <=> (Len(loc.whl_paths) = 1)
        /\ Len(loc.whl_paths) # 1 =>
              /\ pc = "failed"
              /\ error = "Failed to isolate built .whl"
              /\ cmds = <<>>
        /\ \A i \in PipCmds : cmds[i][1][5] = loc.whl_paths[1]

\* C3 witness: two wheels matched, runtest is set, and the step has failed
C3_Witness ==
    /\ WheelLookedUp /\ Len(loc.whl_paths) = 2
    /\ cfg.runtest /\ pc = "failed"

\* build_step has called glob for the GCC include directory
GccGlobbed == "gcc_ver" \in DOMAIN loc /\ loc.gcc_ver # None

\* C4: when the glob for the GCC internal include directory matches no path or
\* several, build_step raises the fatal error, picks no path, and has patched no
\* file and run no external command.
C4_GlobMustBeUnique ==
    (GccGlobbed /\ Len(fs.glob) # 1) =>
        /\ pc = "failed"
        /\ error = "Failed to pinpoint location of GCC include files"
        /\ "gcc_lib_inc" \notin DOMAIN loc
        /\ files = orig.files
        /\ cmds = <<>>

\* C4 witness: the glob matched two paths and the step has failed
C4_Witness ==
    /\ GccGlobbed /\ Len(fs.glob) = 2 /\ pc = "failed"

RECURSIVE CountPair(_, _, _)
\* occurrences of token a directly followed by token b in s
CountPair(a, b, s) ==
    IF Len(s) < 2 THEN 0
    ELSE (IF s[1] = a /\ s[2] = b THEN 1 ELSE 0) + CountPair(a, b, Tail(s))
RECURSIVE CountTok(_, _)
CountTok(a, s) ==
    IF s = <<>> THEN 0 ELSE (IF Head(s) = a THEN 1 ELSE 0) + CountTok(a, Tail(s))

\* the CROSSTOOL files have been patched
Patched == "regex_subs" \in DOMAIN loc /\ pc # "build_patch"
\* <<line before, line after>> of every line of every CROSSTOOL file
PatchedLines ==
    UNION {{<<orig.files[f][i], files[f][i]>> : i \in 1..Len(files[f])} :
             f \in {g \in DOMAIN files : startswith_CROSSTOOL(g[2])}}

\* C5 as stated: after the patch every /usr/bin/<tool> token of a tool of the list
\* is replaced by the path the tool resolves to, and no /usr/bin/<tool> reference
\* remains, for every assignment of resolved paths.
C5_Original ==
    Patched =>
        \A l \in PatchedLines, t \in ToolSet :
            /\ CountPair(USR_BIN, t, l[2]) = 0
            /\ which(t) # SystemPath(t) =>
                 CountTok(which(t), l[2]) = CountPair(USR_BIN, t, l[1])

\* C5 amended: after the patch every /usr/bin/<tool> token of a tool of the list
\* is replaced by the path the tool resolves to; no /usr/bin/<tool> reference
\* remains for a tool that resolves elsewhere, and a tool that resolves to
\* /usr/bin/<tool> itself keeps every reference it had.
C5_ToolPathsReplaced ==
    Patched =>
        \A l \in PatchedLines, t \in ToolSet :
            IF which(t) = SystemPath(t)
            THEN CountPair(USR_BIN, t, l[2]) = CountPair(USR_BIN, t, l[1])
            ELSE /\ CountPair(USR_BIN, t, l[2]) = 0
                 /\ CountTok(which(t), l[2]) = CountPair(USR_BIN, t, l[1])

\* C5 witness: a patched file that referred to /usr/bin/gcc and now refers to the
\* path gcc resolves to
C5_Witness ==
    /\ Patched
    /\ \E l \in PatchedLines :
         /\ CountPair(USR_BIN, "gcc", l[1]) = 1
         /\ CountTok("/eb/bin/gcc", l[2]) = 1

\* the words of the bazel build command lines run
IsBazel(c) == c[1][1] = "bazel"
BazelCmds == {i \in 1..Len(cmds) : IsBazel(cmds[i])}
HasWord(w, words) == \E i \in 1..Len(words) : words[i] = w

\* C6 as stated: the bazel command ends with the packaging-build target, contains
\* --config=cuda if and only if CUDA is resolved and --config=mkl if and only if
\* with_mkl_dnn is true.
C6_Original ==
    \A i \in BazelCmds :
        LET words == cmds[i][1]
        IN  /\ words[Len(words)] = BUILD_TARGET
            /\ HasWord("--config=cuda", words) <=> Present("CUDA")
            /\ HasWord("--config=mkl", words) <=> cfg.with_mkl_dnn

\* C6 amended: the bazel command ends with the packaging-build target, contains
\* --config=cuda if and only if CUDA is resolved or buildopts holds that flag, and
\* --config=mkl if and only if with_mkl_dnn is true or buildopts holds that flag.
C6_BuildCommand ==
    \A i \in BazelCmds :
        LET words == cmds[i][1]
        IN  /\ words[Len(words)] = BUILD_TARGET
            /\ HasWord("--config=cuda", words)
                 <=> (Present("CUDA") \/ HasWord("--config=cuda", cfg.buildopts))
            /\ HasWord("--config=mkl", words)
                 <=> (cfg.with_mkl_dnn \/ HasWord("--config=mkl", cfg.buildopts))

\* C6 witness: with_mkl_dnn is true, CUDA is resolved, buildopts is empty, and the
\* command run holds both flags and the target
C6_Witness ==
    /\ cfg.with_mkl_dnn /\ Present("CUDA") /\ cfg.buildopts = <<>>
    /\ \E i \in BazelCmds :
         /\ HasWord("--config=cuda", cmds[i][1])
         /\ HasWord("--config=mkl", cmds[i][1])
         /\ cmds[i][1][Len(cmds[i][1])] = BUILD_TARGET

\* C7: an external command is run only after every command run before it in the
\* callback has exited with status zero; after a non-zero exit the callback has
\* failed with the fatal error, and no command line is ever run twice.
C7_FailureAborts ==
    /\ \A i \in 1..Len(cmds) : \A j \in 1..(i - 1) : cmds[j][2] = 0
    /\ \A i \in 1..Len(cmds) :
         cmds[i][2] # 0 => (pc = "failed" /\ error = "cmd failed" /\ i = Len(cmds))
    /\ \A i \in 1..Len(cmds) : \A j \in 1..(i - 1) : cmds[i][1] # cmds[j][1]

\* C7 witness: pip install succeeded, the first smoke-test script failed, and the
\* step has failed without running the second
C7_Witness ==
    /\ pc = "failed"
    /\ Len(cmds) = 2
    /\ IsPip(cmds[1]) /\ cmds[1][2] = 0
    /\ IsMnist(cmds[2]) /\ cmds[2][2] = 1

MnistPath(name) ==
    PathJoin(PathJoin(PathJoin(PathJoin(PathJoin(start_dir, "tensorflow"),
        "examples"), "tutorials"), "mnist"), name)
RunsOf(name) == {i \in 1..Len(cmds) : IsMnist(cmds[i]) /\ cmds[i][1][2] = MnistPath(name)}
PipSucceeded == \E i \in PipCmds : cmds[i][2] = 0
\* install_step has returned or raised
InstallEnded == WheelLookedUp /\ pc \in {"installed", "failed"}
LibDir == installdir \o "/" \o pylibdir
OldPythonPath ==
    IF "PYTHONPATH" \in DOMAIN orig.environ THEN orig.environ["PYTHONPATH"] ELSE ""

\* C8 as stated: both example scripts are run if and only if runtest is set and
\* the artifact was installed successfully.
C8_Original ==
    InstallEnded =>
        ((RunsOf("mnist_softmax.py") # {} /\ RunsOf("mnist_with_summaries.py") # {})
            <=> (cfg.runtest /\ PipSucceeded))

\* C8 amended: mnist_softmax.py is run if and only if runtest is set and the
\* artifact was installed successfully, and mnist_with_summaries.py if and only if,
\* in addition, mnist_softmax.py exited with status zero; when a script runs,
\* PYTHONPATH is the installed library location, a colon, and the previous value;
\* each script runs at most once, the first before the second, and each gets a
\* temporary directory that did not exist before, the two being different.
C8_SmokeTests ==
    LET first == RunsOf("mnist_softmax.py")
        second == RunsOf("mnist_with_summaries.py")
    IN  /\ InstallEnded =>
             /\ (first # {}) <=> (cfg.runtest /\ PipSucceeded)
             /\ (second # {}) <=>
                  (cfg.runtest /\ PipSucceeded /\ \E i \in first : cmds[i][2] = 0)
        /\ (~InstallEnded /\ second # {}) => first # {}
        /\ Cardinality(first) <= 1 /\ Cardinality(second) <= 1
        /\ \A i \in first, j \in second : i < j /\ cmds[i][1][4] # cmds[j][1][4]
        /\ \A i \in first \cup second :
             /\ environ["PYTHONPATH"] = LibDir \o ":" \o OldPythonPath
             /\ cmds[i][1][4] \notin orig.tmpdirs
             /\ cmds[i][1][4] \in tmpdirs

\* C8 witness: both scripts have run, with a PYTHONPATH that was set before and a
\* temporary directory of the first script's suffix already there
C8_Witness ==
    /\ pc = "installed"
    /\ RunsOf("mnist_softmax.py") # {} /\ RunsOf("mnist_with_summaries.py") # {}
    /\ "PYTHONPATH" \in DOMAIN orig.environ
    /\ orig.tmpdirs # {}

RECURSIVE DeclarationsOf(_)
DeclarationsOf(dirs) ==
    IF dirs = <<>> THEN <<>>
    ELSE <<NL, CXX_INC, " \"" \o Head(dirs) \o "\"">> \o DeclarationsOf(Tail(dirs))
\* the directories build_step collected, as the file system names them
CollectedIncludes ==
    LET dirs == <<loc.gcc_lib_inc, loc.gcc_lib_inc_fixed, loc.gcc_cplusplus_inc>>
                \o (IF Present("CUDA") THEN <<RootOf("CUDA") \o "/include">> ELSE <<>>)
    IN  [i \in 1..Len(dirs) |-> resolve_path(dirs[i])]

\* C9: after the patch, a line that opened a toolchain block opens it still and is
\* followed by one declaration for each collected include directory (the three GCC
\* directories, then the CUDA one if and only if CUDA is resolved), in that order,
\* and no other include-directory declaration is left in any line.
C9_IncludesStrippedThenInjected ==
    Patched =>
        \A l \in PatchedLines :
            IF l[1] # <<>> /\ Head(l[1]) = TOOLCHAIN_OPEN
            THEN /\ IsPrefix(<<TOOLCHAIN_OPEN>> \o DeclarationsOf(CollectedIncludes), l[2])
                 /\ CountTok(CXX_INC, l[2]) = Len(CollectedIncludes)
                 /\ Len(CollectedIncludes) = IF Present("CUDA") THEN 4 ELSE 3
            ELSE CountTok(CXX_INC, l[2]) = 0

\* C9 witness: CUDA is resolved, and a patched file held a toolchain block that
\* began with a declaration of its own, and a declaration on a line of its own
C9_Witness ==
    /\ Patched /\ Present("CUDA")
    /\ \E l \in PatchedLines : l[1] = LineToolchainInclude /\ CountTok(CXX_INC, l[2]) = 4
    /\ \E l \in PatchedLines : l[1] = LineInclude

\* C10 as stated: once build_step has a compiler root and version, both are those
\* of GCCcore when GCCcore's root is resolved, and both those of GCC otherwise.
C10_SamePackage ==
    GccGlobbed =>
        LET pkg == IF Present("GCCcore") THEN "GCCcore" ELSE "GCC"
        IN  /\ loc.gcc_root = software_root[pkg]
            /\ loc.gcc_ver = software_version[pkg]

=============================================================================
